---- MODULE Spec2Model ----
(***************************************************************************)
(* River: a hierarchical, typed shared-memory region.  A Builder declares  *)
(* channels, rivulets and locks in a metadata tree of Nodes; build() lays  *)
(* the channels out in one byte vector and links the handles handed out so *)
(* far to it.  Channel and Rivulet handles then copy bytes to and from the *)
(* vector, bracketed by the Lock of their Link.                            *)
(*                                                                         *)
(* Pointers are indices into arenas (nodes, links, rivers); index 0 is the *)
(* null pointer.  Strings are sequences of one-character strings.          *)
(***************************************************************************)
EXTENDS Integers, Sequences, FiniteSets, TLC

VARIABLES
    nodes,      \* arena of Builder::Node; nodes[1] is the root builder's root
    links,      \* arena of Link
    rivers,     \* arena of River: rivers[r] is the byte vector *storage
    builders,   \* Builder objects; builders[1] is the root builder
    chans,      \* Channel<T> handles handed to channel()
    rivs,       \* Rivulet handles handed to rivulet()
    locks,      \* Lock objects (a counting mutex)
    th,         \* per thread: the handle operation in progress
    last,       \* the last Builder call and its return code
    fault,      \* "none", or how the process died
    hist        \* history: what the caller has done so far

vars == <<nodes, links, rivers, builders, chans, rivs, locks, th, last, fault, hist>>

(***************************************************************************)
(* Bounds of the model.                                                    *)
(***************************************************************************)
MaxSteps == 5       \* Builder calls and handle operations the callers make
MaxOps == 4         \* handle operations the two worker threads make
MaxGarbage == 2     \* largest value read from an uninitialised size_t
MaxPathLen == 3     \* longest path string passed in the path checks

(***************************************************************************)
(* Program constants.                                                      *)
(***************************************************************************)
ERR_INVALID == 1
ERR_NOTFOUND == 2
ERR_DUPE == 3
ERR_NOTROOT == 4

nullptr == 0
\* An indeterminate size_t: Link's offsets and size are not initialised by
\* `new Link`.
Uninit == -1

\* The n bytes first + 1, first + 2, ...
RECURSIVE Bytes(_, _)
Bytes(first, n) == IF n = 0 THEN <<>> ELSE Append(Bytes(first, n - 1), first + n)

\* n zero bytes: T() of a type of n bytes
RECURSIVE Zero(_)
Zero(n) == IF n = 0 THEN <<>> ELSE Append(Zero(n - 1), 0)

(***************************************************************************)
(* Paths.                                                                  *)
(***************************************************************************)
\* std::isalnum(c) on the characters the model draws from
isalnum(c) ==
    c \in {"a", "b", "c", "o", "p", "s", "t", "v", "A", "Z", "0", "9"}

\* char_is_invalid, the lambda of tokenize_path
char_is_invalid(c) == ~isalnum(c) /\ c # "_" /\ c # "."

\* The tokens `while (std::getline(ss, token, '.')) tokens.push_back(token)`
\* collects from the characters path[i..], `cur` being the token under way.
\* A '.' ends a token (possibly an empty one); at the end of the stream a
\* getline that extracted no character fails and pushes nothing.
RECURSIVE getline_all(_, _, _)
getline_all(path, i, cur) ==
    IF i > Len(path)
    THEN IF cur = <<>> THEN <<>> ELSE <<cur>>
    ELSE IF path[i] = "."
         THEN <<cur>> \o getline_all(path, i + 1, <<>>)
         ELSE getline_all(path, i + 1, Append(cur, path[i]))

\* Builder::tokenize_path: [ret, tokens]
tokenize_path(path) ==
    LET tokens == getline_all(path, 1, <<>>)
        bad(t) == t = <<>> \/ \E k \in 1..Len(t) : char_is_invalid(t[k])
    IN  IF tokens = <<>>
        THEN [ret |-> ERR_INVALID, tokens |-> tokens]
        ELSE IF \E k \in 1..Len(tokens) : bad(tokens[k])
             THEN [ret |-> ERR_INVALID, tokens |-> tokens]
             ELSE [ret |-> 0, tokens |-> tokens]

\* The paths the callers pass to channel(), rivulet() and lock(), and to sub()
Paths == { <<"a">>, <<"a", ".", "a">>, <<"a", ".", "b">> }
SubPaths == { <<"a">> }

(***************************************************************************)
(* The metadata tree.                                                      *)
(***************************************************************************)
\* A null channel_info pointer
NoInfo == [size |-> 0, init_val |-> <<>>]

\* new Node { .name = token, .channel_info = nullptr, .link = nullptr,
\*            .children = {} }
NewNode(token) ==
    [name |-> token, channel_info |-> NoInfo, link |-> nullptr, children |-> <<>>]

\* new Link: the shared pointers are null, the size_t members indeterminate
NewLink ==
    [river |-> nullptr, channel_offset |-> Uninit, rivulet_offset |-> Uninit,
     rivulet_size |-> Uninit, lock |-> nullptr]

\* The search loop of insert_node starting at the second child
RECURSIVE find_child_from(_, _, _, _)
find_child_from(ns, node, token, k) ==
    IF k > Len(ns[node].children) THEN nullptr
    ELSE IF ns[ns[node].children[k]].name = token THEN ns[node].children[k]
    ELSE find_child_from(ns, node, token, k + 1)
find_child_skip(ns, node, token, k) == find_child_from(ns, node, token, k + 1)

\* The search loop of insert_node looking at the last child only
find_child_last(ns, node, token, k) ==
    LET children == ns[node].children
    IN  IF children = <<>> THEN nullptr
        ELSE IF ns[children[Len(children)]].name = token
             THEN children[Len(children)]
             ELSE nullptr

\* The first child of `node` named `token`, or nullptr: the search loop of
\* insert_node
RECURSIVE find_child(_, _, _, _)
find_child(ns, node, token, k) ==
    IF k > Len(ns[node].children) THEN nullptr
    ELSE IF ns[ns[node].children[k]].name = token THEN ns[node].children[k]
    ELSE find_child(ns, node, token, k + 1)

\* Builder::insert_node: [nodes, node_ret]; node_ret stays null when the path
\* does not exist and create is false.  index counts from 0 as in the source.
RECURSIVE insert_node(_, _, _, _, _)
insert_node(ns, node, path, index, create) ==
    IF index = Len(path)
    THEN [nodes |-> ns, node_ret |-> node]
    ELSE LET token == path[index + 1]
             child == find_child(ns, node, token, 1)
         IN  IF child # nullptr
             THEN insert_node(ns, child, path, index + 1, create)
             ELSE IF ~create
                  THEN [nodes |-> ns, node_ret |-> nullptr]
                  ELSE LET new_child == Len(ns) + 1
                           ns2 == Append([ns EXCEPT ![node].children =
                                              Append(@, new_child)],
                                         NewNode(token))
                       IN  insert_node(ns2, new_child, path, index + 1, create)

\* The nodes Builder::for_each_node visits from `node`, in the order it
\* calls func on them: the node, then each child's subtree in turn.
RECURSIVE for_each_node(_, _)
RECURSIVE for_each_child(_, _, _)
for_each_node(ns, node) == <<node>> \o for_each_child(ns, ns[node].children, 1)
for_each_child(ns, children, k) ==
    IF k > Len(children) THEN <<>>
    ELSE for_each_node(ns, children[k]) \o for_each_child(ns, children, k + 1)

(***************************************************************************)
(* Builder.  Each method is an operator from the program state s (a record *)
(* of the arenas, `last` and `fault`) to the state after the call.         *)
(***************************************************************************)
Returned(s, op, b, node, ret) ==
    [s EXCEPT !.last = [op |-> op, b |-> b, node |-> node, ret |-> ret]]

\* Builder::Builder(): a fresh root node, is_root
RootBuilder == [root |-> 1, is_root |-> TRUE]

\* Builder::Builder(const std::shared_ptr<Node> root_)
SubBuilder(root_) == [root |-> root_, is_root |-> FALSE]

\* River::River(): an empty byte vector
NewRiver == <<>>

\* A new Link for every handle, replacing the Link of the node
link_handle_fresh(ns, ls, node) ==
    [nodes |-> [ns EXCEPT ![node].link = Len(ls) + 1],
     links |-> Append(ls, NewLink),
     link |-> Len(ls) + 1]

\* The handle's link, created on the node if the node has none yet:
\*     if (!node->link) { node->link.reset(new Link); }
\*     handle.link = node->link;
\* [nodes, links, link]
link_handle(ns, ls, node) ==
    IF ns[node].link # nullptr
    THEN [nodes |-> ns, links |-> ls, link |-> ns[node].link]
    ELSE [nodes |-> [ns EXCEPT ![node].link = Len(ls) + 1],
          links |-> Append(ls, NewLink),
          link |-> Len(ls) + 1]

\* channel<T> without the check for a channel already at the node
channel_unchecked(s, b, path, init_val) ==
    LET handle == [link |-> nullptr, size |-> Len(init_val), node |-> nullptr,
                   epoch |-> Len(s.rivers)]
        s0 == [s EXCEPT !.chans = Append(@, handle)]
        h == Len(s0.chans)
        tk == tokenize_path(path)
        ins == insert_node(s.nodes, s.builders[b].root, tk.tokens, 0, TRUE)
        channel_node == ins.node_ret
        named == [ins.nodes EXCEPT
                    ![channel_node].name = tk.tokens[Len(tk.tokens)],
                    ![channel_node].channel_info =
                        [size |-> Len(init_val), init_val |-> init_val]]
        lk == link_handle(named, s.links, channel_node)
    IN  IF tk.ret # 0
        THEN Returned(s0, "channel", b, nullptr, tk.ret)
        ELSE Returned([s0 EXCEPT !.nodes = lk.nodes,
                                 !.links = lk.links,
                                 !.chans[h].link = lk.link,
                                 !.chans[h].node = channel_node],
                      "channel", b, channel_node, 0)

\* Builder::channel<T>(path, init_val, channel) on builder b, with
\* sizeof(T) = Len(init_val).  The handle passed in is a new Channel<T>,
\* chans[Len(chans) + 1]; `node` records the node it was declared at and
\* `epoch` the number of rivers built before.
channel(s, b, path, init_val) ==
    LET handle == [link |-> nullptr, size |-> Len(init_val), node |-> nullptr,
                   epoch |-> Len(s.rivers)]
        s0 == [s EXCEPT !.chans = Append(@, handle)]
        h == Len(s0.chans)
        tk == tokenize_path(path)
        ins == insert_node(s.nodes, s.builders[b].root, tk.tokens, 0, TRUE)
        channel_node == ins.node_ret
        named == [ins.nodes EXCEPT
                    ![channel_node].name = tk.tokens[Len(tk.tokens)],
                    ![channel_node].channel_info =
                        [size |-> Len(init_val), init_val |-> init_val]]
        lk == link_handle(named, s.links, channel_node)
    IN  IF tk.ret # 0
        THEN Returned(s0, "channel", b, nullptr, tk.ret)
        ELSE IF ins.nodes[channel_node].channel_info # NoInfo
             THEN Returned([s0 EXCEPT !.nodes = ins.nodes],
                           "channel", b, channel_node, ERR_DUPE)
             ELSE Returned([s0 EXCEPT !.nodes = lk.nodes,
                                      !.links = lk.links,
                                      !.chans[h].link = lk.link,
                                      !.chans[h].node = channel_node],
                           "channel", b, channel_node, 0)

\* Builder::rivulet(path, rivulet) on builder b.  The handle passed in is a
\* new Rivulet, rivs[Len(rivs) + 1].
rivulet(s, b, path) ==
    LET handle == [link |-> nullptr, node |-> nullptr, epoch |-> Len(s.rivers)]
        s0 == [s EXCEPT !.rivs = Append(@, handle)]
        h == Len(s0.rivs)
        tk == tokenize_path(path)
        ins == insert_node(s.nodes, s.builders[b].root, tk.tokens, 0, FALSE)
        rivulet_node == ins.node_ret
        lk == link_handle(s.nodes, s.links, rivulet_node)
    IN  IF tk.ret # 0
        THEN Returned(s0, "rivulet", b, nullptr, tk.ret)
        ELSE IF rivulet_node = nullptr
             THEN Returned(s0, "rivulet", b, nullptr, ERR_NOTFOUND)
             ELSE Returned([s0 EXCEPT !.nodes = lk.nodes,
                                      !.links = lk.links,
                                      !.rivs[h].link = lk.link,
                                      !.rivs[h].node = rivulet_node],
                           "rivulet", b, rivulet_node, 0)

\* The first position k..Len(order) of a node at which check_for_locks does
\* not return 0 (the node has no Link, so the assertion fails, or its Link
\* has a lock), or 0 when the scan reaches the end.
RECURSIVE check_for_locks(_, _, _)
check_for_locks(s, order, k) ==
    IF k > Len(order) THEN 0
    ELSE IF s.nodes[order[k]].link = nullptr THEN k
    ELSE IF s.links[s.nodes[order[k]].link].lock # nullptr THEN k
    ELSE check_for_locks(s, order, k + 1)

\* The links after assign_lock on the nodes order[k..]:
\* node->link->lock = lock
RECURSIVE set_locks(_, _, _, _)
set_locks(s, order, lock_, k) ==
    IF k > Len(order) THEN s.links
    ELSE [set_locks(s, order, lock_, k + 1) EXCEPT
            ![s.nodes[order[k]].link].lock = lock_]

\* lock() with the check and the assignment merged into one scan: the nodes
\* before the conflict already have the lock when ERR_DUPE is returned
lock_one_pass(s, b, path, lock_) ==
    LET tk == tokenize_path(path)
        ins == insert_node(s.nodes, s.builders[b].root, tk.tokens, 0, FALSE)
        node == ins.node_ret
        order == for_each_node(s.nodes, node)
        stop == check_for_locks(s, order, 1)
    IN  IF tk.ret # 0
        THEN Returned(s, "lock", b, nullptr, tk.ret)
        ELSE IF node = nullptr
             THEN Returned(s, "lock", b, nullptr, ERR_NOTFOUND)
             ELSE IF stop # 0 /\ s.nodes[order[stop]].link = nullptr
                  THEN [s EXCEPT !.fault = "assert",
                                 !.last = [op |-> "lock", b |-> b,
                                           node |-> node, ret |-> -1]]
                  ELSE IF stop # 0
                       THEN Returned([s EXCEPT !.links =
                                         set_locks(s, SubSeq(order, 1, stop - 1),
                                                   lock_, 1)],
                                     "lock", b, node, ERR_DUPE)
                       ELSE Returned([s EXCEPT !.links =
                                         set_locks(s, order, lock_, 1)],
                                     "lock", b, node, 0)

\* Builder::lock(path, lock) on builder b
lock(s, b, path, lock_) ==
    LET tk == tokenize_path(path)
        ins == insert_node(s.nodes, s.builders[b].root, tk.tokens, 0, FALSE)
        node == ins.node_ret
        order == for_each_node(s.nodes, node)
        stop == check_for_locks(s, order, 1)
    IN  IF tk.ret # 0
        THEN Returned(s, "lock", b, nullptr, tk.ret)
        ELSE IF node = nullptr
             THEN Returned(s, "lock", b, nullptr, ERR_NOTFOUND)
             ELSE IF stop # 0 /\ s.nodes[order[stop]].link = nullptr
                  THEN \* assert(node->link) fails
                       [s EXCEPT !.fault = "assert",
                                 !.last = [op |-> "lock", b |-> b,
                                           node |-> node, ret |-> -1]]
                  ELSE IF stop # 0
                       THEN Returned(s, "lock", b, node, ERR_DUPE)
                       ELSE Returned([s EXCEPT !.links =
                                         set_locks(s, order, lock_, 1)],
                                     "lock", b, node, 0)

\* Builder::sub(path, builder) on builder b; `out` is the Builder object
\* assigned to.
sub(s, b, path, out) ==
    LET tk == tokenize_path(path)
        ins == insert_node(s.nodes, s.builders[b].root, tk.tokens, 0, TRUE)
        node == ins.node_ret
        bs == IF out > Len(s.builders)
              THEN Append(s.builders, SubBuilder(node))
              ELSE [s.builders EXCEPT ![out] = SubBuilder(node)]
    IN  IF tk.ret # 0
        THEN Returned(s, "sub", b, nullptr, tk.ret)
        ELSE Returned([s EXCEPT !.nodes = ins.nodes, !.builders = bs],
                      "sub", b, node, 0)

\* sum_size leaving the last node of the walk out
RECURSIVE sum_size_short(_, _, _)
sum_size_short(ns, order, k) ==
    IF k >= Len(order) THEN 0
    ELSE ns[order[k]].channel_info.size + sum_size_short(ns, order, k + 1)

\* The sum of channel_info->size() over the nodes of order: sum_size
RECURSIVE sum_size(_, _, _)
sum_size(ns, order, k) ==
    IF k > Len(order) THEN 0
    ELSE ns[order[k]].channel_info.size + sum_size(ns, order, k + 1)

\* add_channel without the memcpy of the initial value
add_channel_no_init(s, link, river, channel_info) ==
    LET old_river_size == Len(s.rivers[river])
    IN  [s EXCEPT !.links[link].channel_offset = old_river_size,
                  !.rivers[river] = @ \o Zero(channel_info.size)]

\* add_channel with the offset of the start of the river in every Link
add_channel_at_front(s, link, river, channel_info) ==
    [s EXCEPT !.links[link].channel_offset = 0,
              !.rivers[river] = @ \o channel_info.init_val]

\* The channel of a node added at the end of the river: the resize, the
\* offset in the Link and the memcpy of the initial value
add_channel(s, link, river, channel_info) ==
    LET old_river_size == Len(s.rivers[river])
    IN  [s EXCEPT !.links[link].channel_offset = old_river_size,
                  !.rivers[river] = @ \o channel_info.init_val]

\* link->rivulet_offset: 0 without children, else the channel_offset in the
\* first child's Link, which `garbage` stands for when it was never set
rivulet_offset(s, children, garbage) ==
    IF children = <<>> THEN 0
    ELSE LET first == s.links[s.nodes[children[1]].link].channel_offset
         IN  IF first = Uninit THEN garbage ELSE first

\* Builder::build_node(node, river).  garbage is the value an uninitialised
\* channel_offset holds when it is read.  Once the process has died nothing
\* more happens.
RECURSIVE build_node(_, _, _, _)
RECURSIVE build_children(_, _, _, _, _)
build_node(s, node, river, garbage) ==
    LET link == s.nodes[node].link
        channel_info == s.nodes[node].channel_info
        children == s.nodes[node].children
        s1 == IF link = nullptr THEN s
              ELSE IF channel_info = NoInfo
                   THEN [s EXCEPT !.links[link].river = river]
                   ELSE add_channel([s EXCEPT !.links[link].river = river],
                                    link, river, channel_info)
        s2 == build_children(s1, children, 1, river, garbage)
        rivulet_size ==
            sum_size(s.nodes, for_each_child(s.nodes, children, 1), 1)
    IN  IF s.fault # "none" THEN s
        ELSE IF s2.fault # "none" \/ link = nullptr THEN s2
        ELSE IF children # <<>> /\ s2.nodes[children[1]].link = nullptr
             THEN \* node->children[0]->link is null
                  [s2 EXCEPT !.links[link].rivulet_size = rivulet_size,
                             !.fault = "null_deref"]
        ELSE [s2 EXCEPT !.links[link].rivulet_size = rivulet_size,
                        !.links[link].rivulet_offset =
                            rivulet_offset(s2, children, garbage)]
\* The recursion into the children from the last child to the first
RECURSIVE build_children_reversed(_, _, _, _, _)
build_children_reversed(s, children, k, river, garbage) ==
    IF k > Len(children) THEN s
    ELSE build_node(build_children_reversed(s, children, k + 1, river, garbage),
                    children[k], river, garbage)

build_children(s, children, k, river, garbage) ==
    IF k > Len(children) THEN s
    ELSE build_children(build_node(s, children[k], river, garbage),
                        children, k + 1, river, garbage)

\* build() without the pass that removes the links of the nodes
remove_link_never(ns, order, k) == ns

\* remove_link called on the root alone
remove_link_root(ns, order, k) == [ns EXCEPT ![order[1]].link = nullptr]

\* The nodes after remove_link on the nodes order[k..]: node->link.reset()
RECURSIVE remove_link(_, _, _)
remove_link(ns, order, k) ==
    IF k > Len(order) THEN ns
    ELSE [remove_link(ns, order, k + 1) EXCEPT ![order[k]].link = nullptr]

\* build() without the is_root check
build_any(s, b, garbage) ==
    LET root == s.builders[b].root
        river == Len(s.rivers) + 1
        s1 == build_node([s EXCEPT !.rivers = Append(@, NewRiver)],
                         root, river, garbage)
        s2 == [s1 EXCEPT !.nodes = remove_link(s1.nodes,
                                               for_each_node(s1.nodes, root), 1)]
    IN  IF s1.fault # "none"
        THEN [s1 EXCEPT !.last = [op |-> "build", b |-> b,
                                  node |-> root, ret |-> -1]]
        ELSE Returned(s2, "build", b, root, 0)

\* Builder::build(river_ret) on builder b
build(s, b, garbage) ==
    LET root == s.builders[b].root
        river == Len(s.rivers) + 1
        s1 == build_node([s EXCEPT !.rivers = Append(@, NewRiver)],
                         root, river, garbage)
        s2 == [s1 EXCEPT !.nodes = remove_link(s1.nodes,
                                               for_each_node(s1.nodes, root), 1)]
    IN  IF ~s.builders[b].is_root
        THEN Returned(s, "build", b, nullptr, ERR_NOTROOT)
        ELSE IF s1.fault # "none"
             THEN [s1 EXCEPT !.last = [op |-> "build", b |-> b,
                                       node |-> root, ret |-> -1]]
             ELSE Returned(s2, "build", b, root, 0)

(***************************************************************************)
(* Handles.                                                                *)
(***************************************************************************)
\* Linkable::linked() of a handle holding `link`
linked(link) == link # nullptr /\ links[link].river # nullptr

\* Rivulet::size()
size(h) ==
    IF ~linked(rivs[h].link) THEN 0 ELSE links[rivs[h].link].rivulet_size

\* A thread outside any handle operation.  op, h, buf and ret keep the last
\* operation and what it returned; n counts the operations begun.
Idle ==
    [pc |-> "idle", op |-> "none", h |-> 0, buf |-> <<>>, idx |-> 0, ret |-> 0,
     n |-> 0]

ChannelOps == {"get", "set"}
\* The handle, Link and memory region of the operation thread t is in
OpLink(t) ==
    IF th[t].op \in ChannelOps THEN chans[th[t].h].link ELSE rivs[th[t].h].link
\* the byte count of its memcpy: size() or link->rivulet_size
OpSize(t) ==
    IF th[t].op \in ChannelOps THEN chans[th[t].h].size
    ELSE links[OpLink(t)].rivulet_size
\* the offset added to storage->data()
OpOffset(t) ==
    IF th[t].op \in ChannelOps THEN links[OpLink(t)].channel_offset
    ELSE links[OpLink(t)].rivulet_offset

(***************************************************************************)
(* The callers.                                                            *)
(***************************************************************************)
Locks == {1, 2}
Threads == {1, 2}

\* The Builder objects the callers pass to sub()
SubBuilders == {2}

\* sizeof(T) of the h-th Channel<T> the callers declare: two-byte and
\* one-byte types in turn
SizeOf(h) == IF h % 2 = 1 THEN 2 ELSE 1
\* The initial value its channel is declared with
InitVal(h) == Bytes(10 * h, SizeOf(h))
\* The value passed to set() on a Channel of n bytes
SetVal(n) == Bytes(4, n)
\* The n bytes passed to write()
WriteSrc(n) == Bytes(90, n)

Cur ==
    [nodes |-> nodes, links |-> links, rivers |-> rivers, builders |-> builders,
     chans |-> chans, rivs |-> rivs, last |-> last, fault |-> fault,
     hist |-> hist]

Install(s) ==
    /\ nodes' = s.nodes
    /\ links' = s.links
    /\ rivers' = s.rivers
    /\ builders' = s.builders
    /\ chans' = s.chans
    /\ rivs' = s.rivs
    /\ last' = s.last
    /\ fault' = s.fault
    /\ hist' = s.hist
    /\ UNCHANGED <<locks, th>>

Alive == fault = "none"
\* One thread declares, builds and operates; the two worker threads of a
\* built river only operate.
CanStep == hist.steps < (IF Len(th) = 1 THEN MaxSteps ELSE MaxOps)

\* The callers' record of a Builder call that left the program in state s
Called(s) == [s EXCEPT !.hist.steps = @ + 1]
\* ... and of a lock(path, lock_) call: the subtrees locked so far in call
\* order, each with the number of rivers built before
CalledLock(s, lock_) ==
    IF s.fault = "none" /\ s.last.ret = 0
    THEN [s EXCEPT !.hist.steps = @ + 1,
                   !.hist.locked = Append(@, [node |-> s.last.node, lock |-> lock_,
                                              epoch |-> Len(s.rivers)])]
    ELSE [s EXCEPT !.hist.steps = @ + 1]
\* Declarations and builds are serialised with the handle operations
Quiet == \A t \in DOMAIN th : th[t].pc = "idle"

NoHist ==
    [dirty |-> {}, locked |-> <<>>, counted |-> <<0, 0>>, steps |-> 0,
     path |-> <<>>]

\* The program after `Builder builder;`
Fresh ==
    [nodes |-> <<NewNode(<<>>)>>, links |-> <<>>, rivers |-> <<>>,
     builders |-> <<RootBuilder>>, chans |-> <<>>, rivs |-> <<>>,
     last |-> [op |-> "none", b |-> 0, node |-> nullptr, ret |-> 0],
     fault |-> "none", hist |-> NoHist]

NewLock == [holder |-> 0, acquire_count |-> 0, release_count |-> 0]

Init ==
    /\ nodes = Fresh.nodes
    /\ links = Fresh.links
    /\ rivers = Fresh.rivers
    /\ builders = Fresh.builders
    /\ chans = Fresh.chans
    /\ rivs = Fresh.rivs
    /\ last = Fresh.last
    /\ fault = Fresh.fault
    /\ locks = <<NewLock, NewLock>>
    /\ th = <<Idle>>
    /\ hist = Fresh.hist

Channel(b, path) ==
    /\ Alive /\ Quiet /\ CanStep
    /\ Install(Called(channel(Cur, b, path, InitVal(Len(chans) + 1))))

GetRivulet(b, path) ==
    /\ Alive /\ Quiet /\ CanStep
    /\ Install(Called(rivulet(Cur, b, path)))

SetLock(b, path, lock_) ==
    /\ Alive /\ Quiet /\ CanStep
    /\ Install(CalledLock(lock(Cur, b, path, lock_), lock_))

Build(b) ==
    /\ Alive /\ Quiet /\ CanStep
    /\ \E garbage \in 0..MaxGarbage : Install(Called(build(Cur, b, garbage)))

Sub(b, path, out) ==
    /\ Alive /\ Quiet /\ CanStep
    /\ out <= Len(builders) + 1
    /\ Install(Called(sub(Cur, b, path, out)))

\* The return of an operation without the release of the lock
Release_forgotten(t) ==
    /\ Alive
    /\ th[t].pc = "copy"
    /\ th[t].idx = OpSize(t)
    /\ th' = [th EXCEPT ![t].pc = "idle"]
    /\ UNCHANGED <<nodes, links, rivers, builders, chans, rivs, locks, last, fault, hist>>

\* Thread t enters serialize, deserialize, read or write with buffer buf
\* (null: a null dest or src) on a handle holding `link`: the early return,
\* or on to the lock.
Enter(t, op, h, link, buf, null) ==
    /\ Alive
    /\ th[t].pc = "idle"
    /\ CanStep
    /\ IF null \/ ~linked(link)
       THEN /\ th' = [th EXCEPT ![t] = [Idle EXCEPT !.op = op, !.h = h, !.buf = buf,
                                                     !.n = th[t].n + 1]]
            /\ hist' = [hist EXCEPT !.steps = @ + 1]
       ELSE /\ th' = [th EXCEPT ![t] = [Idle EXCEPT !.pc = "acquire", !.op = op,
                                                     !.h = h, !.buf = buf,
                                                     !.n = th[t].n + 1]]
            /\ hist' = [hist EXCEPT
                          !.steps = @ + 1,
                          !.dirty = IF op \in {"set", "write"}
                                    THEN @ \cup {links[link].river} ELSE @,
                          !.counted = IF links[link].lock # nullptr
                                      THEN [@ EXCEPT ![links[link].lock] = @ + 1]
                                      ELSE @]
    /\ UNCHANGED <<nodes, links, rivers, builders, chans, rivs, locks, last, fault>>

\* get() with `T val;` left uninitialised
Get_uninitialised(t, h) ==
    Enter(t, "get", h, chans[h].link, Bytes(6, chans[h].size), FALSE)

\* Channel<T>::get(): T val = T(); serialize(&val)
Get(t, h) == Enter(t, "get", h, chans[h].link, Zero(chans[h].size), FALSE)

\* Channel<T>::set(val): deserialize(&val)
Set(t, h) == Enter(t, "set", h, chans[h].link, SetVal(chans[h].size), FALSE)

\* Rivulet::read(dest), dest null or a buffer of size() bytes
Read(t, h, null) ==
    Enter(t, "read", h, rivs[h].link, IF null THEN <<>> ELSE Zero(size(h)), null)

\* Rivulet::write(src), src null or size() bytes
Write(t, h, null) ==
    Enter(t, "write", h, rivs[h].link, IF null THEN <<>> ELSE WriteSrc(size(h)), null)

\* Rivulet::size()
Size(t, h) ==
    /\ Alive
    /\ th[t].pc = "idle"
    /\ CanStep
    /\ th' = [th EXCEPT ![t] = [Idle EXCEPT !.op = "size", !.h = h, !.ret = size(h),
                                          !.n = th[t].n + 1]]
    /\ hist' = [hist EXCEPT !.steps = @ + 1]
    /\ UNCHANGED <<nodes, links, rivers, builders, chans, rivs, locks, last, fault>>

\* if (link->lock) { link->lock->acquire(); }
Acquire(t) ==
    /\ Alive
    /\ th[t].pc = "acquire"
    /\ LET l == links[OpLink(t)].lock
       IN  IF l = nullptr
           THEN UNCHANGED locks
           ELSE /\ locks[l].holder = 0
                /\ locks' = [locks EXCEPT ![l].holder = t,
                                          ![l].acquire_count = @ + 1]
    /\ th' = [th EXCEPT ![t].pc = "copy"]
    /\ UNCHANGED <<nodes, links, rivers, builders, chans, rivs, last, fault, hist>>

\* One byte of the std::memcpy between the buffer and
\* storage->data() + offset.  A byte past the end of the vector is outside
\* the allocation.
Copy(t) ==
    /\ Alive
    /\ th[t].pc = "copy"
    /\ th[t].idx < OpSize(t)
    /\ LET r == links[OpLink(t)].river
           at == OpOffset(t) + th[t].idx + 1
           k == th[t].idx + 1
       IN  IF at > Len(rivers[r])
           THEN /\ fault' = "out_of_bounds"
                /\ UNCHANGED <<rivers, th>>
           ELSE /\ fault' = fault
                /\ IF th[t].op \in {"get", "read"}
                   THEN /\ th' = [th EXCEPT ![t].buf[k] = rivers[r][at],
                                            ![t].idx = k]
                        /\ UNCHANGED rivers
                   ELSE /\ rivers' = [rivers EXCEPT ![r][at] = th[t].buf[k]]
                        /\ th' = [th EXCEPT ![t].idx = k]
    /\ UNCHANGED <<nodes, links, builders, chans, rivs, locks, last, hist>>

\* if (link->lock) { link->lock->release(); } and the return
Release(t) ==
    /\ Alive
    /\ th[t].pc = "copy"
    /\ th[t].idx = OpSize(t)
    /\ LET l == links[OpLink(t)].lock
       IN  IF l = nullptr
           THEN UNCHANGED locks
           ELSE locks' = [locks EXCEPT ![l].holder = 0,
                                       ![l].release_count = @ + 1]
    /\ th' = [th EXCEPT ![t].pc = "idle"]
    /\ UNCHANGED <<nodes, links, rivers, builders, chans, rivs, last, fault, hist>>

Declare ==
    \/ \E b \in 1..Len(builders), path \in Paths : Channel(b, path)
    \/ \E b \in 1..Len(builders), path \in Paths : GetRivulet(b, path)
    \/ \E b \in 1..Len(builders), path \in Paths, l \in Locks : SetLock(b, path, l)
    \/ \E b \in 1..Len(builders) : Build(b)
    \/ \E b \in 1..Len(builders), path \in SubPaths, out \in SubBuilders :
           Sub(b, path, out)

Operate ==
    \E t \in DOMAIN th :
        \/ \E h \in 1..Len(chans) : Get(t, h) \/ Set(t, h)
        \/ \E h \in 1..Len(rivs), null \in BOOLEAN : Read(t, h, null) \/ Write(t, h, null)
        \/ \E h \in 1..Len(rivs) : Size(t, h)
        \/ Acquire(t)
        \/ Copy(t)
        \/ Release(t)

Next == Declare \/ Operate

Spec == Init /\ [][Next]_vars

(***************************************************************************)
(* Worker threads on a built river.  The setup phase is over: the river    *)
(* was declared and built by one of the call sequences below, and its      *)
(* handles are handed to two threads.                                      *)
(***************************************************************************)
A == <<"a">>
AA == <<"a", ".", "a">>
AB == <<"a", ".", "b">>

Ch(s, path) == Called(channel(s, 1, path, InitVal(Len(s.chans) + 1)))
Rv(s, path) == Called(rivulet(s, 1, path))
Lk(s, path, lock_) == CalledLock(lock(s, 1, path, lock_), lock_)
Bd(s) == Called(build(s, 1, 0))

\* channel a, a.a; rivulet a; lock a; build; rivulet a.a
LockedLast == Rv(Bd(Lk(Rv(Ch(Ch(Fresh, A), AA), A), A, 1)), AA)
\* channel a; lock a; channel a.a; build
LockedFirst == Bd(Ch(Lk(Ch(Fresh, A), A, 1), AA))
\* channel a, a.a, a.b; rivulet a; lock a.a; build
LockedInside == Bd(Lk(Rv(Ch(Ch(Ch(Fresh, A), AA), AB), A), AA, 1))

\* channel a; sub a; through the sub-builder channel a.b (that is a.a.b);
\* rivulet a.a; rivulet a; build, the uninitialised channel_offset of the
\* Link of a.a reading as g
Interior(g) ==
    LET s1 == Ch(Fresh, A)
        s2 == Called(sub(s1, 1, A, 2))
        s3 == Called(channel(s2, 2, AB, InitVal(Len(s2.chans) + 1)))
    IN  Called(build(Rv(Rv(s3, AA), A), 1, g))

Scenarios ==
    {LockedLast, LockedFirst, LockedInside} \cup { Interior(g) : g \in 0..MaxGarbage }

InitThreads ==
    \E s \in Scenarios :
        /\ nodes = s.nodes
        /\ links = s.links
        /\ rivers = s.rivers
        /\ builders = s.builders
        /\ chans = s.chans
        /\ rivs = s.rivs
        /\ last = s.last
        /\ fault = s.fault
        /\ hist = [s.hist EXCEPT !.steps = 0]
        /\ locks = <<NewLock, NewLock>>
        /\ th = <<Idle, Idle>>

SpecThreads == InitThreads /\ [][Operate]_vars

(***************************************************************************)
(* Properties.                                                             *)
(***************************************************************************)
\* Thread t returns from a handle operation in this step: through the
\* release, or through the early return of an unlinked handle or null buffer
Returns(t, op) ==
    /\ th'[t].op = op
    /\ th'[t].pc = "idle"
    /\ \/ th[t].pc = "copy"
       \/ th'[t].n = th[t].n + 1

\* The nodes of the subtree of node p, and its strict descendants
Subtree(p) == { for_each_node(nodes, p)[k] : k \in 1..Len(for_each_node(nodes, p)) }
Descendants(p) == Subtree(p) \ {p}

\* The bytes of the river that a linked Channel handle c names
ChannelBytes(c) ==
    LET l == links[chans[c].link]
    IN  SubSeq(rivers[l.river], l.channel_offset + 1, l.channel_offset + chans[c].size)

\* C1: once a river was built after a successful channel() call, and as long
\* as nothing was set or written, get() on the handle of that call returns
\* the initial value the channel was declared with.
C1_GetReturnsInitialValue ==
    [][\A t \in DOMAIN th :
         Returns(t, "get") =>
             LET c == th'[t].h
             IN  (/\ chans[c].node # nullptr
                  /\ Len(rivers) > chans[c].epoch
                  /\ hist'.dirty = {})
                 => th'[t].buf = InitVal(c)]_vars

\* C1 witness: get() on the second of two channels, which lies at a non-zero
\* offset, has returned its initial value.
C1_Witness ==
    /\ th[1].op = "get" /\ th[1].pc = "idle" /\ th[1].h = 2
    /\ chans[2].link # nullptr
    /\ links[chans[2].link].river # nullptr
    /\ links[chans[2].link].channel_offset > 0
    /\ th[1].buf = InitVal(2)

(***************************************************************************)
(* Rivulets.                                                               *)
(***************************************************************************)
\* The Channel handles bound to node n in river `river`
ChannelsAt(n, river) ==
    { c \in DOMAIN chans :
        /\ chans[c].node = n
        /\ chans[c].link # nullptr
        /\ links[chans[c].link].river = river }

\* The first position k.. of `order` whose node holds a channel of `river`,
\* or 0
RECURSIVE FirstChannel(_, _, _)
FirstChannel(order, river, k) ==
    IF k > Len(order) THEN 0
    ELSE IF ChannelsAt(order[k], river) # {} THEN k
    ELSE FirstChannel(order, river, k + 1)

\* The strict descendants of the node of Rivulet handle r in document order
Below(r) == for_each_child(nodes, nodes[rivs[r].node].children, 1)

\* C2: for every Rivulet handle that build() has bound to a river, the
\* rivulet_offset in its Link is the channel_offset of the first channel
\* below its node in document order, whatever the shape of the tree.
C2_RivuletStartsAtFirstChannel ==
    \A r \in DOMAIN rivs :
         (rivs[r].link # nullptr /\ links[rivs[r].link].river # nullptr) =>
             LET river == links[rivs[r].link].river
                 k == FirstChannel(Below(r), river, 1)
             IN  k # 0 =>
                   \A c \in ChannelsAt(Below(r)[k], river) :
                       links[rivs[r].link].rivulet_offset =
                           links[chans[c].link].channel_offset

\* The sum of the sizes of the channels declared at the nodes of set S while
\* at most `epoch` rivers had been built
RECURSIVE SizeOfChannels(_)
SizeOfChannels(C) ==
    IF C = {} THEN 0
    ELSE LET c == CHOOSE x \in C : TRUE
         IN  chans[c].size + SizeOfChannels(C \ {c})
DeclaredBelow(r) ==
    { c \in DOMAIN chans :
        /\ chans[c].node \in Descendants(rivs[r].node)
        /\ chans[c].epoch <= rivs[r].epoch }

\* The schema of the readme: system.time (uint64_t), system.abort (bool),
\* and through the sub-builder of control: pressure (double), pressure.valid
\* (bool), valve_open (bool); the control rivulet; the lock on control; build.
\* Names are cut to their first letters.
Readme ==
    LET s1 == channel(Fresh, 1, <<"s", ".", "t">>, Zero(8))
        s2 == channel(s1, 1, <<"s", ".", "a">>, Zero(1))
        s3 == sub(s2, 1, <<"c">>, 2)
        s4 == channel(s3, 2, <<"p">>, Bytes(0, 8))
        s5 == channel(s4, 2, <<"p", ".", "v">>, Bytes(0, 1))
        s6 == channel(s5, 2, <<"v", "_", "o">>, Zero(1))
        s7 == rivulet(s6, 1, <<"c">>)
        s8 == lock(s7, 1, <<"c">>, 1)
    IN  build(s8, 1, 0)

\* C3: after build(), size() of a Rivulet handle is the sum of the sizes of
\* the channels declared at strict descendants of its node (0 without any; a
\* channel at the node itself is not counted); for the control rivulet of the
\* readme it is 10.
C3_RivuletSize ==
    /\ fault = "none" =>
         \A r \in DOMAIN rivs :
             linked(rivs[r].link) => size(r) = SizeOfChannels(DeclaredBelow(r))
    /\ Readme.links[Readme.rivs[1].link].rivulet_size = 10
    /\ Readme.last.ret = 0

\* C3 witness: size() was called on a built rivulet whose node holds a
\* channel itself and has one channel below it, and counted the latter only.
C3_Witness ==
    /\ th[1].op = "size" /\ th[1].pc = "idle"
    /\ linked(rivs[th[1].h].link)
    /\ \E c \in DOMAIN chans : chans[c].node = rivs[th[1].h].node /\ chans[c].size = 2
    /\ Cardinality(DeclaredBelow(th[1].h)) = 1
    /\ th[1].ret = 1

\* The sum of the sizes of the channels of `river` at the nodes order[1..k-1]
RECURSIVE SizeBefore(_, _, _)
SizeBefore(order, river, k) ==
    IF k <= 1 THEN 0
    ELSE SizeBefore(order, river, k - 1)
         + SizeOfChannels(ChannelsAt(order[k - 1], river))

\* Position of node n in order
PositionIn(order, n) == CHOOSE k \in 1..Len(order) : order[k] = n

\* C4: when write(src) on a linked Rivulet handle is the only operation made
\* so far and has returned, every channel below the rivulet's node holds the
\* slice of src that starts at the sum of the sizes of the channels before it
\* in document order and has its size, and every other channel of the river
\* still holds its initial value.
C4_WriteSplitsIntoChannels ==
    \A t \in DOMAIN th :
        (/\ th[t].op = "write" /\ th[t].pc = "idle"
         /\ hist.steps = 1 /\ hist.dirty # {}
         /\ fault = "none")
        => LET r == th[t].h
               river == links[rivs[r].link].river
               order == Below(r)
           IN  \A c \in DOMAIN chans :
                   (chans[c].link # nullptr /\ links[chans[c].link].river = river)
                   => IF chans[c].node \in Descendants(rivs[r].node)
                      THEN LET pre == SizeBefore(order, river,
                                                 PositionIn(order, chans[c].node))
                           IN  ChannelBytes(c) =
                                   SubSeq(th[t].buf, pre + 1, pre + chans[c].size)
                      ELSE ChannelBytes(c) = InitVal(c)

\* A channel() call made in this step, and the handle passed to it
ChannelCalled == Len(chans') = Len(chans) + 1

\* C5: a channel() call on a node that already holds a channel returns
\* ERR_DUPE, changes neither the tree nor any Link nor any earlier handle, and
\* leaves its handle without a Link; such a handle stays unlinked through
\* every build, its get() returns zero and its set() changes no river, while
\* set() and get() on a linked handle store and return the channel's value.
C5_DuplicateChannel ==
    [][/\ (ChannelCalled /\ \E c \in DOMAIN chans : chans[c].node = last'.node)
          => /\ last'.ret = ERR_DUPE
             /\ nodes' = nodes
             /\ links' = links
             /\ \A c \in DOMAIN chans : chans'[c] = chans[c]
             /\ chans'[Len(chans')].link = nullptr
             /\ chans'[Len(chans')].node = nullptr
       /\ \A c \in DOMAIN chans :
             chans[c].node = nullptr => chans'[c].link = nullptr
       /\ \A t \in DOMAIN th :
             /\ (Returns(t, "get") /\ chans[th'[t].h].node = nullptr)
                => th'[t].buf = Zero(chans[th'[t].h].size)
             /\ (Returns(t, "set") /\ chans[th'[t].h].node = nullptr)
                => rivers' = rivers /\ th[t].pc = "idle"
             /\ (Returns(t, "set") /\ linked(chans[th'[t].h].link))
                => ChannelBytes(th'[t].h) = SetVal(chans[th'[t].h].size)
             /\ (Returns(t, "get") /\ linked(chans[th'[t].h].link))
                => th'[t].buf = ChannelBytes(th'[t].h)]_vars

\* C5 witness: after a rejected second declaration and a build, the first
\* handle was set and the rejected handle was then set without effect.
C5_Witness ==
    /\ Len(chans) = 2
    /\ chans[1].node # nullptr /\ chans[2].node = nullptr
    /\ last.op = "build" /\ last.ret = 0
    /\ th[1].op = "set" /\ th[1].pc = "idle" /\ th[1].h = 2 /\ th[1].n = 2
    /\ ChannelBytes(1) = SetVal(2)

(***************************************************************************)
(* Locks.                                                                  *)
(***************************************************************************)
\* A lock() call made in this step
LockCalled ==
    /\ last'.op = "lock"
    /\ hist'.steps = hist.steps + 1
    /\ th' = th

\* One node lies in the subtree of the other
Related(n, m) == n \in Subtree(m) \/ m \in Subtree(n)

\* The subtrees locked since the last build
LockedNow == { k \in DOMAIN hist.locked : hist.locked[k].epoch = Len(rivers) }

\* C6: a lock() call that returns, on an existing node that is the root of an
\* earlier locked subtree, or an ancestor or a descendant of it, returns
\* ERR_DUPE and changes no Link; on an existing node unrelated to every
\* locked subtree it returns 0.
C6_LockConflict ==
    [][(LockCalled /\ last'.node # nullptr /\ fault' = "none")
       => IF \E k \in LockedNow : Related(hist.locked[k].node, last'.node)
          THEN last'.ret = ERR_DUPE /\ links' = links
          ELSE last'.ret = 0]_vars

\* C7: once a river is built, every Channel and Rivulet handle obtained
\* before that build at a node of a subtree locked with L before that build
\* has L in its Link, whether it was obtained before or after the lock() call.
C7_LockCoversSubtree ==
    \A k \in DOMAIN hist.locked :
        LET e == hist.locked[k]
        IN  (fault = "none" /\ Len(rivers) > e.epoch) =>
              /\ \A c \in DOMAIN chans :
                    (chans[c].node \in Subtree(e.node) /\ chans[c].epoch = e.epoch)
                    => links[chans[c].link].lock = e.lock
              /\ \A r \in DOMAIN rivs :
                    (rivs[r].node \in Subtree(e.node) /\ rivs[r].epoch = e.epoch)
                    => links[rivs[r].link].lock = e.lock

\* Threads between the acquire and the release of lock l
Holding(l) ==
    { t \in DOMAIN th : th[t].pc = "copy" /\ links[OpLink(t)].lock = l }
\* Threads that have entered an operation under lock l and not acquired it
Waiting(l) ==
    { t \in DOMAIN th : th[t].pc = "acquire" /\ links[OpLink(t)].lock = l }

\* C8: with hist.counted[l] the number of get/set/read/write calls made so
\* far on linked handles (non-null buffer) whose Link carries lock l -- calls
\* on other handles are not counted -- acquire was called once for each call
\* that is past its acquire, release once for each call that has returned,
\* and at most one acquire is without its release; when no call is under way
\* both counts equal the number of calls.
C8_LockCounts ==
    \A l \in Locks :
        /\ locks[l].acquire_count = hist.counted[l] - Cardinality(Waiting(l))
        /\ locks[l].release_count = locks[l].acquire_count - Cardinality(Holding(l))
        /\ Cardinality(Holding(l)) <= 1
        /\ Quiet => /\ locks[l].acquire_count = hist.counted[l]
                    /\ locks[l].release_count = hist.counted[l]

\* C8 witness: of four calls made by the two threads, among them a read on
\* an unlinked handle, three were under lock 1 and have returned.
C8_Witness ==
    /\ Quiet
    /\ locks[1].acquire_count = 3 /\ locks[1].release_count = 3
    /\ th[1].n + th[2].n = 4
    /\ th[1].n > 0 /\ th[2].n > 0
    /\ \E t \in DOMAIN th : th[t].op = "read" /\ ~linked(rivs[th[t].h].link)

\* The locked subtrees that hold the node of the handle thread t works on
SubtreesOf(t) ==
    { k \in DOMAIN hist.locked :
        LET n == IF th[t].op \in ChannelOps THEN chans[th[t].h].node
                 ELSE rivs[th[t].h].node
        IN  n \in Subtree(hist.locked[k].node) }

\* C9: while a thread is inside the byte copy of a set() or write(), no
\* other thread is inside a byte copy on a handle of the same locked subtree.
C9_CopiesExclusive ==
    \A t1, t2 \in DOMAIN th :
        (/\ t1 # t2
         /\ th[t1].pc = "copy" /\ th[t1].op \in {"set", "write"}
         /\ th[t2].pc = "copy")
        => SubtreesOf(t1) \cap SubtreesOf(t2) = {}

\* C10: every build() appends one new river and leaves the earlier ones as
\* they are; a Link that holds a river is never changed again, nor is any
\* handle; and a byte copied through a handle changes only the river of the
\* handle's Link.
C10_RebuildIndependence ==
    [][/\ \A l \in DOMAIN links : links[l].river # nullptr => links'[l] = links[l]
       /\ \A c \in DOMAIN chans : chans'[c] = chans[c]
       /\ \A r \in DOMAIN rivs : rivs'[r] = rivs[r]
       /\ (last'.op = "build" /\ last'.ret = 0 /\ Len(rivers') # Len(rivers))
          => /\ Len(rivers') = Len(rivers) + 1
             /\ \A i \in DOMAIN rivers : rivers'[i] = rivers[i]
       /\ \A t \in DOMAIN th :
             (th[t].pc = "copy" /\ rivers' # rivers)
             => \A i \in DOMAIN rivers :
                    i # links[OpLink(t)].river => rivers'[i] = rivers[i]]_vars

\* C10 witness: a handle of the first of two builds was set after the second
\* build; the first river holds the value and the second river, which holds
\* a channel of its own, is as built.
C10_Witness ==
    /\ Len(rivers) = 2
    /\ Len(chans) = 2
    /\ linked(chans[1].link) /\ links[chans[1].link].river = 1
    /\ linked(chans[2].link) /\ links[chans[2].link].river = 2
    /\ th[1].op = "set" /\ th[1].pc = "idle" /\ th[1].h = 1
    /\ rivers[1] = SetVal(2)
    /\ rivers[2] = InitVal(2)

(***************************************************************************)
(* Unlinked handles.                                                       *)
(***************************************************************************)
\* The Link held by handle h of the kind operation op works on
HandleLink(op, h) == IF op \in ChannelOps THEN chans[h].link ELSE rivs[h].link

\* Thread t calls an operation in this step
Calls(t) == th'[t].n = th[t].n + 1

\* C11: an operation called on a handle that is not linked returns at once,
\* changes no river and no lock and is not counted as a locked call; get()
\* then returns zero and size() returns 0.  A set() made before build() is
\* discarded: once the handle is linked its channel holds the initial value.
C11_UnlinkedNoOp ==
    [][\A t \in DOMAIN th :
         /\ (Calls(t) /\ ~linked(HandleLink(th'[t].op, th'[t].h)))
            => /\ th'[t].pc = "idle"
               /\ rivers' = rivers
               /\ locks' = locks
               /\ hist'.counted = hist.counted
               /\ th'[t].op = "get" => th'[t].buf = Zero(chans[th'[t].h].size)
               /\ th'[t].op = "size" => th'[t].ret = 0
         /\ (/\ th[t].op = "set" /\ th[t].pc = "idle"
             /\ hist.dirty = {}
             /\ linked(chans[th[t].h].link))
            => ChannelBytes(th[t].h) = InitVal(th[t].h)]_vars

\* C11 witness: the only operation made is a set() on the second channel,
\* made before the build that has since linked the handle, and the channel
\* holds its initial value.
C11_Witness ==
    /\ th[1].op = "set" /\ th[1].pc = "idle" /\ th[1].n = 1 /\ th[1].h = 2
    /\ hist.dirty = {}
    /\ last.op = "build" /\ last.ret = 0
    /\ linked(chans[2].link)
    /\ ChannelBytes(2) = InitVal(2)

(***************************************************************************)
(* Sub-builders.                                                           *)
(***************************************************************************)
\* A build() call made in this step
BuildCalled ==
    /\ last'.op = "build"
    /\ hist'.steps = hist.steps + 1
    /\ th' = th

\* C12: build() on a Builder made by sub() returns ERR_NOTROOT and changes
\* nothing: no river is added, no Link and no node changes, no handle is
\* linked.  build() on the root Builder, when it returns, returns 0 and adds
\* one river.
C12_BuildNotRoot ==
    [][BuildCalled =>
         IF builders[last'.b].is_root
         THEN fault' = "none" => (last'.ret = 0 /\ Len(rivers') = Len(rivers) + 1)
         ELSE /\ last'.ret = ERR_NOTROOT
              /\ fault' = fault
              /\ rivers' = rivers
              /\ nodes' = nodes
              /\ links' = links
              /\ chans' = chans
              /\ rivs' = rivs
              /\ builders' = builders]_vars

\* C12 witness: build() was refused on a sub-builder made by a sub-builder,
\* in a tree that holds a locked Link.
C12_Witness ==
    /\ last.op = "build" /\ last.ret = ERR_NOTROOT
    /\ Len(builders) = 2
    /\ \A k \in 1..Len(nodes[1].children) : builders[2].root # nodes[1].children[k]
    /\ rivers = <<>>
    /\ \E l \in DOMAIN links : links[l].lock # nullptr

(***************************************************************************)
(* Paths of any shape.  One Builder call with an arbitrary path string is  *)
(* made on a tree that earlier calls have grown.                           *)
(***************************************************************************)
\* The characters of the path strings
Chars == {"a", "0", "_", ".", "-"}

\* The strings of at most n characters
RECURSIVE Strings(_)
Strings(n) ==
    IF n = 0 THEN {<<>>}
    ELSE Strings(n - 1) \cup { Append(p, c) : p \in Strings(n - 1), c \in Chars }

\* The record of a Builder call with path string `path`
Probed(s, path) == [s EXCEPT !.hist.steps = @ + 1, !.hist.path = path]

\* channel a, a.a; rivulet a; lock a.a; sub a
Grown ==
    Called(sub(Lk(Rv(Ch(Ch(Fresh, A), AA), A), AA, 1), 1, A, 2))
\* channel a.a, which creates a without a Link; sub a
GrownBare == Called(sub(Ch(Fresh, AA), 1, A, 2))

Trees == {Fresh, Grown, GrownBare}

InitPaths ==
    \E s \in Trees :
        /\ nodes = s.nodes
        /\ links = s.links
        /\ rivers = s.rivers
        /\ builders = s.builders
        /\ chans = s.chans
        /\ rivs = s.rivs
        /\ last = s.last
        /\ fault = s.fault
        /\ hist = [s.hist EXCEPT !.steps = 0]
        /\ locks = <<NewLock, NewLock>>
        /\ th = <<Idle>>

Unprobed == Alive /\ hist.steps = 0

ProbeChannel(b, path) ==
    /\ Unprobed
    /\ Install(Probed(channel(Cur, b, path, InitVal(Len(chans) + 1)), path))

ProbeRivulet(b, path) ==
    /\ Unprobed
    /\ Install(Probed(rivulet(Cur, b, path), path))

ProbeLock(b, path, lock_) ==
    /\ Unprobed
    /\ Install(Probed(lock(Cur, b, path, lock_), path))

ProbeSub(b, path, out) ==
    /\ Unprobed
    /\ Install(Probed(sub(Cur, b, path, out), path))

NextPaths ==
    \E b \in 1..Len(builders), path \in Strings(MaxPathLen) :
        \/ ProbeChannel(b, path)
        \/ ProbeRivulet(b, path)
        \/ \E l \in Locks : ProbeLock(b, path, l)
        \/ \E out \in SubBuilders : ProbeSub(b, path, out)

SpecPaths == InitPaths /\ [][NextPaths]_vars

\* The characters a token may hold: [A-Za-z0-9_], as far as the model's
\* characters go
WordChars ==
    {"a", "b", "c", "o", "p", "s", "t", "v", "A", "Z", "0", "9", "_"}

\* The path is empty, holds an empty token (a leading dot, a trailing dot, two
\* dots in a row) or a character no token may hold
Malformed(p) ==
    \/ p = <<>>
    \/ p[1] = "."
    \/ p[Len(p)] = "."
    \/ \E i \in 1..(Len(p) - 1) : p[i] = "." /\ p[i + 1] = "."
    \/ \E i \in 1..Len(p) : p[i] \notin WordChars \cup {"."}

\* The Builder call with a path string returns in this step
ProbeReturns == hist'.steps = hist.steps + 1 /\ th' = th /\ fault' = "none"

\* C13: channel(), rivulet(), lock() and sub() return ERR_INVALID for every
\* malformed path and another code for every other path.
C13_InvalidPaths ==
    (hist.steps = 1 /\ fault = "none" /\ last.op \in {"channel", "rivulet", "lock", "sub"})
    => (last.ret = ERR_INVALID <=> Malformed(hist.path))

\* The tokens joined with '.'
RECURSIVE Join(_)
Join(tokens) ==
    IF tokens = <<>> THEN <<>>
    ELSE IF Len(tokens) = 1 THEN tokens[1]
    ELSE tokens[1] \o <<".">> \o Join(Tail(tokens))

\* C14: for every path passed to a Builder call that tokenize_path accepts,
\* the tokens it produced, joined with '.', are the path.
C14_TokensRoundTrip ==
    (hist.steps = 1 /\ tokenize_path(hist.path).ret = 0)
    => Join(tokenize_path(hist.path).tokens) = hist.path

\* C15: a channel(), rivulet(), lock() or sub() call that returns a non-zero
\* code leaves every node and every Link as it was: no node is created, no
\* channel info set or replaced, no Link created, no lock assigned.
C15_FailedCallChangesNothing ==
    [][(ProbeReturns /\ last'.ret # 0)
       => /\ nodes' = nodes
          /\ links' = links
          /\ builders' = builders]_vars

\* C15 witness: on the grown tree each of ERR_INVALID, ERR_NOTFOUND and
\* ERR_DUPE can be the code returned, here ERR_DUPE by lock() on the parent of
\* a locked node.
C15_Witness ==
    /\ hist.steps = 1
    /\ last.op = "lock" /\ last.ret = ERR_DUPE
    /\ last.node # nullptr
    /\ links[nodes[last.node].link].lock = nullptr
    /\ \E l \in DOMAIN links : links[l].lock # nullptr

\* The tokens of a well-formed path: the pieces between the dots
RECURSIVE Pieces(_, _)
Pieces(p, cur) ==
    IF p = <<>> THEN <<cur>>
    ELSE IF Head(p) = "." THEN <<cur>> \o Pieces(Tail(p), <<>>)
    ELSE Pieces(Tail(p), Append(cur, Head(p)))

\* Whether a node exists at the tokens from node n, following child names
RECURSIVE Exists(_, _)
Exists(n, tokens) ==
    IF tokens = <<>> THEN TRUE
    ELSE \E k \in 1..Len(nodes[n].children) :
            /\ nodes[nodes[n].children[k]].name = Head(tokens)
            /\ Exists(nodes[n].children[k], Tail(tokens))

\* C16: rivulet() and lock() with a well-formed path return ERR_NOTFOUND
\* exactly when no node exists at the path from the builder's root, and then
\* create no node.
C16_NotFound ==
    [][(/\ ProbeReturns
        /\ last'.op \in {"rivulet", "lock"}
        /\ ~Malformed(hist'.path))
       => /\ last'.ret = ERR_NOTFOUND
             <=> ~Exists(builders[last'.b].root, Pieces(hist'.path, <<>>))
          /\ last'.ret = ERR_NOTFOUND => nodes' = nodes]_vars

\* C16 witness: rivulet() through the sub-builder rooted at a was refused for
\* a path whose first token exists below a and whose second does not.
C16_Witness ==
    /\ hist.steps = 1
    /\ last.op = "rivulet" /\ last.ret = ERR_NOTFOUND /\ last.b = 2
    /\ hist.path = <<"a", ".", "a">>
    /\ Exists(builders[2].root, <<<<"a">>>>)
    /\ ~Exists(1, <<<<"a">>, <<"a">>, <<"a">>>>)

(***************************************************************************)
(* Assertions of lock().                                                   *)
(***************************************************************************)
\* C17: no lock() call fails assert(node->link): whenever lock() finds the
\* node of its path, every node of the subtree it scans has a Link.
C17_LockAssertsHold == fault # "assert"

(***************************************************************************)
(* Layout of the storage.                                                  *)
(***************************************************************************)
\* The channels declared so far
Declared == { c \in DOMAIN chans : chans[c].node # nullptr }

\* The initial values of the channels at the nodes order[k..], in that order
RECURSIVE InitialValues(_, _)
InitialValues(order, k) ==
    IF k > Len(order) THEN <<>>
    ELSE nodes[order[k]].channel_info.init_val \o InitialValues(order, k + 1)

\* C18: after every build() that returned 0, the first or a later one, the
\* new storage is as large as the channels declared in the tree together,
\* and, as long as nothing was set or written in it, holds the initial value
\* of every declared channel.
C18_StorageHoldsEveryChannel ==
    (last.op = "build" /\ last.ret = 0 /\ fault = "none")
    => /\ Len(rivers[Len(rivers)]) = SizeOfChannels(Declared)
       /\ Len(rivers) \notin hist.dirty
          => rivers[Len(rivers)] = InitialValues(for_each_node(nodes, 1), 1)

\* The channels declared before the first build
FirstBuild == { c \in Declared : chans[c].epoch = 0 }

\* The sum of the sizes of the channels of the first build at order[1..k-1]
RECURSIVE SizeAhead(_, _)
SizeAhead(order, k) ==
    IF k <= 1 THEN 0
    ELSE SizeAhead(order, k - 1)
         + SizeOfChannels({ c \in FirstBuild : chans[c].node = order[k - 1] })

\* C19: in the first river the offset of every channel is the sum of the
\* sizes of the channels before it in the walk from the root that visits a
\* node before its children and the children in the order of their creation;
\* the offsets are a function of the tree alone.
C19_PackedDepthFirst ==
    (fault = "none" /\ Len(rivers) >= 1)
    => \A c \in FirstBuild :
          LET order == for_each_node(nodes, 1)
          IN  /\ links[chans[c].link].river = 1
              /\ links[chans[c].link].channel_offset =
                     SizeAhead(order, PositionIn(order, chans[c].node))

\* C19 witness: of two sibling channels the one whose node was created first
\* (by sub(), before either channel was declared) was declared last and lies
\* first, and the river is as long as both.
C19_Witness ==
    /\ fault = "none" /\ Len(rivers) = 1
    /\ FirstBuild = {1, 2}
    /\ \E p \in DOMAIN nodes :
          /\ Len(nodes[p].children) = 2
          /\ nodes[p].children[1] = chans[2].node
          /\ nodes[p].children[2] = chans[1].node
    /\ links[chans[2].link].channel_offset = 0
    /\ links[chans[1].link].channel_offset = 1
    /\ Len(rivers[1]) = 3

\* The bytes [channel_offset, channel_offset + size) of a linked handle c
Range(c) ==
    LET o == links[chans[c].link].channel_offset
    IN  (o + 1)..(o + chans[c].size)

\* The linked Channel handles other than h in the river of h
Others(h) ==
    { c \in DOMAIN chans \ {h} :
        /\ linked(chans[c].link)
        /\ links[chans[c].link].river = links[chans[h].link].river }

\* C20: the byte ranges of distinct linked channels of one river lie inside
\* the river and are pairwise disjoint; each byte that set() copies leaves
\* the bytes of every other channel as they were, set(v) returns with v in
\* its own range, and get() returns the bytes of its own range.
C20_ChannelsDisjoint ==
    /\ [](\A h \in DOMAIN chans :
            linked(chans[h].link)
            => /\ Range(h) \subseteq 1..Len(rivers[links[chans[h].link].river])
               /\ \A c \in Others(h) : Range(c) \cap Range(h) = {})
    /\ [][\A t \in DOMAIN th :
            /\ (th[t].op = "set" /\ th[t].pc = "copy" /\ th'[t] # th[t])
               => \A c \in Others(th[t].h) : ChannelBytes(c)' = ChannelBytes(c)
            /\ (Returns(t, "set") /\ th[t].pc = "copy")
               => ChannelBytes(th[t].h)' = SetVal(chans[th[t].h].size)
            /\ (Returns(t, "get") /\ th[t].pc = "copy")
               => th'[t].buf = ChannelBytes(th[t].h)']_vars

\* C20 witness: of two channels in one river the first was set, and get()
\* on the second has since returned the value it was declared with.
C20_Witness ==
    /\ Len(chans) = 2
    /\ linked(chans[1].link) /\ linked(chans[2].link)
    /\ links[chans[1].link].river = links[chans[2].link].river
    /\ hist.dirty = {links[chans[1].link].river}
    /\ ChannelBytes(1) = SetVal(chans[1].size)
    /\ th[1].op = "get" /\ th[1].pc = "idle" /\ th[1].h = 2
    /\ th[1].buf = InitVal(2)

(***************************************************************************)
(* Sub-builders and their parent.                                          *)
(***************************************************************************)
\* The program after the Builder call `op` on builder b with path `path`
\* (lock_ for lock(), out for sub()) made in state s
CallOf(op, s, b, path, lock_, out) ==
    IF op = "channel" THEN channel(s, b, path, InitVal(Len(s.chans) + 1))
    ELSE IF op = "rivulet" THEN rivulet(s, b, path)
    ELSE IF op = "lock" THEN lock(s, b, path, lock_)
    ELSE sub(s, b, path, out)

\* The path p.r
Under(p, r) == p \o <<".">> \o r

\* C21: channel(r), rivulet(r), lock(r) and sub(r) on the builder that
\* sub("a") returned have the return code of the same call with path a.r on
\* the root builder and leave the same nodes, Links, handles and builders.
C21_SubBuilderSameAsParent ==
    [][(/\ hist'.steps = hist.steps + 1
        /\ last'.op \in {"channel", "rivulet", "lock", "sub"}
        /\ last'.b = 2)
       => \E l \in Locks :
             LET parent == CallOf(last'.op, Cur, 1, Under(A, hist'.path), l, 2)
             IN  /\ last'.ret = parent.last.ret
                 /\ last'.node = parent.last.node
                 /\ fault' = parent.fault
                 /\ nodes' = parent.nodes
                 /\ links' = parent.links
                 /\ chans' = parent.chans
                 /\ rivs' = parent.rivs
                 /\ builders' = parent.builders]_vars

(***************************************************************************)
(* Handles and builds.                                                     *)
(***************************************************************************)
\* A handle that a successful channel() or rivulet() call returned is linked
\* to the river of the first build after the call, and to none before it
LinkedByNextBuild(handle) ==
    handle.node # nullptr
    => IF handle.epoch < Len(rivers)
       THEN links[handle.link].river = handle.epoch + 1
       ELSE ~linked(handle.link)

\* C22: once build() has returned 0, every handle of a successful channel()
\* or rivulet() call made since the build before is linked to the river of
\* this build and no node has a Link; a handle obtained after a build is
\* not linked until the next build.
C22_BuildLinksHandles ==
    fault = "none"
    => /\ \A h \in DOMAIN chans : LinkedByNextBuild(chans[h])
       /\ \A h \in DOMAIN rivs : LinkedByNextBuild(rivs[h])
       /\ (last.op = "build" /\ last.ret = 0)
          => \A n \in DOMAIN nodes : nodes[n].link = nullptr

\* C22 witness: a second build has returned 0; the channel and the rivulet
\* obtained before the first build are linked to the first river, the
\* channel obtained between the builds to the second.
C22_Witness ==
    /\ fault = "none"
    /\ last.op = "build" /\ last.ret = 0
    /\ Len(rivers) = 2 /\ Len(chans) = 2 /\ Len(rivs) = 1
    /\ chans[1].epoch = 0 /\ chans[1].node # nullptr
    /\ rivs[1].epoch = 0 /\ rivs[1].node # nullptr
    /\ chans[2].epoch = 1 /\ chans[2].node # nullptr
    /\ links[chans[1].link].river = 1
    /\ links[rivs[1].link].river = 1
    /\ links[chans[2].link].river = 2

\* The handles of successful channel() and rivulet() calls
Handles ==
    { chans[h] : h \in { k \in DOMAIN chans : chans[k].node # nullptr } }
    \cup { rivs[h] : h \in { k \in DOMAIN rivs : rivs[k].node # nullptr } }

\* C23: handles that channel() and rivulet() returned for one node between
\* the same two builds, in either order and through any builder, hold one
\* Link: they have the same lock and the same river.
C23_OneLinkPerNode ==
    \A g, h \in Handles :
        (g.node = h.node /\ g.epoch = h.epoch) => g.link = h.link

\* C23 witness: a rivulet handle and a channel handle of one node, whose
\* node existed before the channel was declared, share a Link that has a
\* lock and is linked to the first river.
C23_Witness ==
    /\ Len(chans) = 2 /\ Len(rivs) = 1
    /\ chans[1].node # nullptr /\ chans[2].node # nullptr
    /\ rivs[1].node = chans[2].node
    /\ chans[1].node \in Descendants(chans[2].node)
    /\ rivs[1].link = chans[2].link
    /\ links[rivs[1].link].lock # nullptr
    /\ links[rivs[1].link].river = 1

(***************************************************************************)
(* Shape of the metadata tree.                                             *)
(***************************************************************************)
\* C24: after any sequence of channel(), sub(), rivulet(), lock() and
\* build() calls no node has two children of the same name, and a call
\* whose path exists creates no node.
C24_SiblingNamesUnique ==
    \A n \in DOMAIN nodes :
        \A i, j \in 1..Len(nodes[n].children) :
            i # j => nodes[nodes[n].children[i]].name
                     # nodes[nodes[n].children[j]].name

\* C24 witness: a node has two children, and a channel() call on the path of
\* the first one found it there (ERR_DUPE) after the second was created.
C24_Witness ==
    /\ last.op = "channel" /\ last.ret = ERR_DUPE
    /\ Len(nodes) = 4
    /\ \E n \in DOMAIN nodes :
          /\ Len(nodes[n].children) = 2
          /\ last.node = nodes[n].children[1]

(***************************************************************************)
(* Bounds of the regions.                                                  *)
(***************************************************************************)
\* C25: build() never reads the Link of a child that has none, no handle
\* operation copies outside its river, and the region of every linked
\* handle lies inside its river: channel_offset + size() for a Channel,
\* rivulet_offset + rivulet_size for a Rivulet.
C25_RegionsInsideStorage ==
    /\ fault \notin {"null_deref", "out_of_bounds"}
    /\ \A h \in DOMAIN chans :
          linked(chans[h].link)
          => LET l == links[chans[h].link]
             IN  /\ l.channel_offset >= 0
                 /\ l.channel_offset + chans[h].size <= Len(rivers[l.river])
    /\ \A h \in DOMAIN rivs :
          linked(rivs[h].link)
          => LET l == links[rivs[h].link]
             IN  /\ l.rivulet_offset >= 0
                 /\ l.rivulet_offset + l.rivulet_size <= Len(rivers[l.river])

(***************************************************************************)
(* Locks and the bytes they guard.                                         *)
(***************************************************************************)
\* The locks guarding byte `at` of river r: the lock of every locked subtree
\* holding a channel of r, declared before the build of r, whose range holds
\* the byte
Guards(r, at) ==
    { hist.locked[k].lock :
        k \in { j \in DOMAIN hist.locked :
                  \E c \in DOMAIN chans :
                      /\ linked(chans[c].link)
                      /\ links[chans[c].link].river = r
                      /\ hist.locked[j].epoch = chans[c].epoch
                      /\ chans[c].node \in Subtree(hist.locked[j].node)
                      /\ at \in Range(c) } }

\* C26: a thread about to copy a byte of a channel that lies in a subtree
\* locked with L, through a Channel handle or through a Rivulet handle whose
\* region covers the byte, holds L.
C26_CopyHoldsSubtreeLock ==
    \A t \in DOMAIN th :
        (th[t].pc = "copy" /\ th[t].idx < OpSize(t))
        => \A l \in Guards(links[OpLink(t)].river, OpOffset(t) + th[t].idx + 1) :
               locks[l].holder = t

====
